---- MODULE Spec2Model ----
(***************************************************************************)
(* A model of the coordination network toolkit: the SQLite store written   *)
(* by preprocess.py, and the partition-by-user engine of                   *)
(* compute_networks.py that fills the per-network edge tables.             *)
(***************************************************************************)
EXTENDS Integers, Sequences, FiniteSets, TLC

(***************************************************************************)
(* Values.  A nullable column holds Null (SQL NULL, Python None) or        *)
(* Some(v).  Text is a sequence of one-character strings.                  *)
(***************************************************************************)
Null == <<>>
Some(v) == <<v>>
IsNull(x) == x = Null
Get(x) == x[1]
Range(f) == {f[i] : i \in DOMAIN f}

\* Bounds of the model.
MaxMsgId == 3
NumUsers == 2
MaxBatchLen == 2
MaxWindow == 1
MaxMinEdgeWeight == 2

MsgIds == 1..MaxMsgId
Users == 1..NumUsers
SetToSeqs(S) == UNION {[1..n -> S] : n \in 0..MaxBatchLen}

(***************************************************************************)
(* The store: database.py's schema.                                        *)
(***************************************************************************)
VARIABLES
    edge,           \* table edge: one record per stored message
    message_url,    \* table message_url
    resolved_url,   \* table resolved_url
    net,            \* the edge tables, one row set per network kind
    pc,             \* outcome of the last top-level call
    params,         \* arguments of the last compute_* call
    batches,        \* parallise_query_by_user_id: the batches of user ids
    fut,            \* state of each submitted _run_query call
    local,          \* each worker's temporary table local_network
    lock,           \* holder of the manager lock, 0 when free
    waiting,        \* futures the engine has not collected yet
    prev,           \* history: the preceding run when it had the same arguments
    study,          \* the network kind the behaviour computes, fixed at the start
    firstSeen,      \* history: the first committed input tuple of each message_id
    rolledBack,     \* history: rows the last failed batch had written before it raised
    resolved_message_url,   \* table resolved_message_url, Null until it is created
    out,            \* what the last call of an output function returned
    resolver        \* resolve_all_urls: its worklist and futures, Null outside a call

store == <<edge, message_url, resolved_url>>
engine == <<net, params, batches, fut, local, lock, waiting, prev>>
vars == <<edge, message_url, resolved_url, net, pc, params, batches, fut, local,
          lock, waiting, prev, study, firstSeen, rolledBack,
          resolved_message_url, out, resolver>>

\* No worker of the last run is still pending or at work; a new top-level
\* call starts only then (the process that ran the engine has exited)
Settled ==
    /\ \A i \in DOMAIN fut : fut[i] \in {"done", "failed"}
    /\ pc \notin {"resolving", "rebuilding"}
\* The pool's processes that are running a call
Busy == {i \in DOMAIN fut : fut[i] \in {"computed", "locked", "appended"}}

\* The engine's own variables are gone with the call that owned them
Forgotten ==
    /\ params' = [kind |-> "none", time_window |-> 0, min_edge_weight |-> 1,
                  n_threads |-> 1, threshold |-> <<1, 1>>, min_tokens |-> 0,
                  reprocess_text |-> FALSE, resolved |-> FALSE]
    /\ batches' = <<>>
    /\ fut' = <<>>
    /\ local' = <<>>
    /\ lock' = 0
    /\ waiting' = {}
    /\ prev' = Null

\* float(timestamp) of preprocess.py:90, on the timestamp strings of the model
FloatRaises(s) == s \notin {"0", "1", "2"}
Float(s) == CASE s = "0" -> 0 [] s = "1" -> 1 [] s = "2" -> 2

\* `x or None` of preprocess.py:81-82: the empty string becomes NULL
OrNone(x) == IF x = "" THEN Null ELSE Some(x)

\* One element of the generator `processed`, preprocess.py:76-94
Processed(t) ==
    [message_id |-> t.message_id,
     user_id |-> t.user_id,
     username |-> t.username,
     repost_id |-> OrNone(t.repost_id),
     reply_id |-> OrNone(t.reply_id),
     message |-> t.message,
     transformed_message |-> Null,
     transformed_message_length |-> Null,
     transformed_message_hash |-> Null,
     token_set |-> Null,
     timestamp |-> Float(t.timestamp)]

\* "insert or ignore into edge": message_id is the primary key
InsertOrReplaceEdge(tbl, row) ==
    {r \in tbl : r.message_id # row.message_id} \cup {row}

InsertOrIgnoreEdge(tbl, row) ==
    IF \E r \in tbl : r.message_id = row.message_id THEN tbl ELSE tbl \cup {row}

\* trigger url_to_resolve: insert or ignore into resolved_url(url)
UrlToResolveAgain(ru, url) ==
    {r \in ru : r.url # url}
        \cup {[url |-> url, resolved_url |-> Null,
                ssl_verified |-> Null, resolved_status |-> Null]}

UrlToResolve(ru, url) ==
    IF \E r \in ru : r.url = url
    THEN ru
    ELSE ru \cup {[url |-> url, resolved_url |-> Null,
                   ssl_verified |-> Null, resolved_status |-> Null]}

\* "insert or ignore into message_url", with the trigger it fires
InsertOrReplaceMessageUrl(db, row) ==
    [db EXCEPT !.message_url =
                   {r \in @ : ~(r.message_id = row.message_id /\ r.url = row.url)}
                   \cup {row},
               !.resolved_url = UrlToResolve(@, row.url)]

InsertOrIgnoreMessageUrl(db, row) ==
    IF \E r \in db.message_url : r.message_id = row.message_id /\ r.url = row.url
    THEN db
    ELSE [db EXCEPT !.message_url = @ \cup {row},
                    !.resolved_url = UrlToResolve(@, row.url)]

\* The inner loop over one row's urls, preprocess.py:107-111
RECURSIVE InsertUrls(_, _, _, _)
InsertUrls(db, row, urls, i) ==
    IF i > Len(urls)
    THEN db
    ELSE InsertUrls(
            InsertOrIgnoreMessageUrl(db,
                [message_id |-> row.message_id, url |-> urls[i],
                 timestamp |-> row.timestamp, user_id |-> row.user_id]),
            row, urls, i + 1)

\* The loop of preprocess.py:96-111 from tuple i on, inside the transaction.
\* The result carries raised = TRUE when a tuple made the loop raise.
RECURSIVE InsertRows(_, _, _)
InsertRows(db, messages, i) ==
    IF i > Len(messages)
    THEN db
    ELSE LET t == messages[i] IN
         IF FloatRaises(t.timestamp)
         THEN [db EXCEPT !.raised = TRUE]
         ELSE LET row == Processed(t)
                  d1 == [db EXCEPT !.edge = InsertOrIgnoreEdge(@, row)]
              IN IF ~IsNull(row.repost_id)
                 THEN InsertRows(d1, messages, i + 1)
                 ELSE IF IsNull(t.urls)
                      THEN [d1 EXCEPT !.raised = TRUE]
                      ELSE InsertRows(InsertUrls(d1, row, Get(t.urls), 1),
                                      messages, i + 1)

\* What db.close() leaves on disk, preprocess.py:113-115: the commit is only
\* reached when nothing raised, otherwise the open transaction is rolled back.
CloseKeepsPartial(before, after) == after

CloseDb(before, after) == IF after.raised THEN before ELSE after

Db == [edge |-> edge, message_url |-> message_url,
       resolved_url |-> resolved_url, raised |-> FALSE]

\* The first tuple of each message_id not yet stored, for the history variable
FirstTuples(messages, known) ==
    {messages[i] : i \in {j \in 1..Len(messages) :
        /\ \A t \in known : t.message_id # messages[j].message_id
        /\ \A k \in 1..(j - 1) : messages[k].message_id # messages[j].message_id}}

\* The tables preprocess_data leaves, as a function of the tables it found
Ingested(db, messages) ==
    CloseDb(db, InsertRows([db EXCEPT !.raised = FALSE], messages, 1))

\* preprocess_data(db_path, messages), preprocess.py:49-115
preprocess_data(messages) ==
    LET after == InsertRows(Db, messages, 1)
        final == Ingested(Db, messages)
    IN /\ pc # "running"
       /\ Settled
       /\ Forgotten
       /\ UNCHANGED <<net, study, resolved_message_url>>
       /\ resolver' = Null
       /\ out' = Null
       /\ edge' = final.edge
       /\ message_url' = final.message_url
       /\ resolved_url' = final.resolved_url
       /\ pc' = IF after.raised THEN "ingest_failed" ELSE "ingested"
       /\ firstSeen' = IF after.raised THEN firstSeen
                       ELSE firstSeen \cup FirstTuples(messages, firstSeen)
       /\ rolledBack' = IF after.raised
                        THEN Cardinality(after.edge \ edge)
                             + Cardinality(after.message_url \ message_url)
                        ELSE 0

(***************************************************************************)
(* similarity.py: the text normaliser, the tokenizer and the similarity    *)
(* function, over the characters "a" "b" "A" "B" "@" and " ".              *)
(***************************************************************************)
IsSpace(c) == c = " "
Lower(c) == CASE c = "A" -> "a" [] c = "B" -> "b" [] OTHER -> c
LowerText(text) == [i \in 1..Len(text) |-> Lower(text[i])]

\* social_media_cleaner.sub("", text): drop every mention, from "@" up to but
\* not including the next whitespace or the end of the text
RECURSIVE CleanFrom(_, _, _)
CleanFrom(text, i, inMention) ==
    IF i > Len(text) THEN <<>>
    ELSE IF inMention
         THEN IF IsSpace(text[i])
              THEN <<text[i]>> \o CleanFrom(text, i + 1, FALSE)
              ELSE CleanFrom(text, i + 1, TRUE)
         ELSE IF text[i] = "@"
              THEN CleanFrom(text, i + 1, TRUE)
              ELSE <<text[i]>> \o CleanFrom(text, i + 1, FALSE)

social_media_cleaner(text) == CleanFrom(text, 1, FALSE)

\* str.split(): the maximal runs of non-whitespace characters, in order
RECURSIVE SplitFrom(_, _, _)
SplitFrom(text, i, word) ==
    IF i > Len(text)
    THEN IF word = <<>> THEN <<>> ELSE <<word>>
    ELSE IF IsSpace(text[i])
         THEN (IF word = <<>> THEN <<>> ELSE <<word>>) \o SplitFrom(text, i + 1, <<>>)
         ELSE SplitFrom(text, i + 1, Append(word, text[i]))

Split(text) == SplitFrom(text, 1, <<>>)

\* " ".join(words)
RECURSIVE Join(_)
Join(words) ==
    IF words = <<>> THEN <<>>
    ELSE IF Len(words) = 1 THEN words[1]
    ELSE words[1] \o <<" ">> \o Join(Tail(words))

\* message_preprocessor, similarity.py:23-36
message_preprocessor(text) == Join(Split(social_media_cleaner(LowerText(text))))

\* The code point of a character, for sorting and hashing
Code(c) == CASE c = " " -> 32 [] c = "@" -> 64 [] c = "A" -> 65 [] c = "B" -> 66
             [] c = "a" -> 97 [] c = "b" -> 98

\* Python's order on strings
RECURSIVE StrLess(_, _)
StrLess(v, w) ==
    IF v = <<>> THEN w # <<>>
    ELSE IF w = <<>> THEN FALSE
    ELSE IF v[1] # w[1] THEN Code(v[1]) < Code(w[1])
    ELSE StrLess(Tail(v), Tail(w))

\* sorted(S) for a set of strings
RECURSIVE Sorted(_)
Sorted(S) ==
    IF S = {} THEN <<>>
    ELSE LET m == CHOOSE x \in S : \A y \in S \ {x} : StrLess(x, y)
         IN <<m>> \o Sorted(S \ {m})

\* tokenize, similarity.py:39-45.  On this alphabet the word-break pattern
\* splits the cleaned text at its whitespace runs.
tokenize(text) ==
    Join(Sorted(Range(Split(social_media_cleaner(LowerText(text))))))

\* similarity, similarity.py:48-51: <<|A & B|, |A | B|>>, the quotient's
\* numerator and denominator; the division raises when the denominator is 0
similarity_of_lists(tokens_1, tokens_2) ==
    LET set_1 == Range(Split(tokens_1))
        set_2 == Range(Split(tokens_2))
    IN <<Cardinality(set_1 \cap set_2),
         Len(Split(tokens_1)) + Len(Split(tokens_2)) - Cardinality(set_1 \cap set_2)>>

similarity(tokens_1, tokens_2) ==
    LET set_1 == Range(Split(tokens_1))
        set_2 == Range(Split(tokens_2))
    IN <<Cardinality(set_1 \cap set_2), Cardinality(set_1 \cup set_2)>>

SimilarityRaises(tokens_1, tokens_2) == similarity(tokens_1, tokens_2)[2] = 0

\* MinDocSizeSimilarity.__call__, similarity.py:68-78; 0 is <<0, 1>>
MinDocSizeSimilarity(min_tokens, tokens_1, tokens_2) ==
    IF Cardinality(Range(Split(tokens_1))) < min_tokens THEN <<0, 1>>
    ELSE IF Cardinality(Range(Split(tokens_2))) < min_tokens THEN <<0, 1>>
    ELSE similarity(tokens_1, tokens_2)

\* zlib.adler32 of the text's bytes, compute_networks.py:184
AdlerMod == 65521
RECURSIVE AdlerFrom(_, _, _, _)
AdlerFrom(text, i, a, b) ==
    IF i > Len(text) THEN b * 65536 + a
    ELSE LET a2 == (a + Code(text[i])) % AdlerMod
         IN AdlerFrom(text, i + 1, a2, (b + a2) % AdlerMod)

message_hash(text) == AdlerFrom(text, 1, 1, 0)

(***************************************************************************)
(* compute_networks.py: the queries.                                       *)
(***************************************************************************)
Kinds == {"co_retweet", "co_tweet", "co_reply", "co_link", "co_similar_tweet"}

\* "e_2.timestamp between e_1.timestamp - ?1 and e_1.timestamp + ?1"
BetweenExclusive(e_1, e_2, time_window) ==
    /\ e_2.timestamp > e_1.timestamp - time_window
    /\ e_2.timestamp < e_1.timestamp + time_window

Between(e_1, e_2, time_window) ==
    /\ e_2.timestamp >= e_1.timestamp - time_window
    /\ e_2.timestamp <= e_1.timestamp + time_window

\* SQL "=": true only of two values that are present and equal
SqlEq(x, y) == ~IsNull(x) /\ ~IsNull(y) /\ x = y

\* The similarity function the run registers, get_similarity_fn_from_min_size
SimValue(p, tokens_1, tokens_2) ==
    IF p.min_tokens > 0
    THEN MinDocSizeSimilarity(p.min_tokens, tokens_1, tokens_2)
    ELSE similarity(tokens_1, tokens_2)

SimRaises(p, tokens_1, tokens_2) ==
    /\ p.min_tokens = 0
    /\ SimilarityRaises(tokens_1, tokens_2)

\* "similarity(...) >= ?3" with ?3 = threshold[1] / threshold[2]
SimAtLeast(v, threshold) == v[1] * threshold[2] >= threshold[1] * v[2]

\* The rows each query joins: edge, or for co_link message_url or, with
\* resolved, resolved_message_url
SourceRows(p) ==
    IF p.kind # "co_link" THEN edge
    ELSE IF p.resolved THEN Get(resolved_message_url)
    ELSE message_url

\* The conditions of each query on (e_1, e_2) that come before the similarity
\* call: the join condition without the restriction to the batch
Joined(p, e_1, e_2) ==
    /\ Between(e_1, e_2, p.time_window)
    /\ CASE p.kind = "co_retweet" -> SqlEq(e_1.repost_id, e_2.repost_id)
         [] p.kind = "co_tweet" ->
                /\ SqlEq(e_1.transformed_message_length, e_2.transformed_message_length)
                /\ SqlEq(e_1.transformed_message_hash, e_2.transformed_message_hash)
                /\ SqlEq(e_1.transformed_message, e_2.transformed_message)
                /\ IsNull(e_1.repost_id) /\ IsNull(e_2.repost_id)
         [] p.kind = "co_reply" ->
                /\ SqlEq(e_1.reply_id, e_2.reply_id)
                /\ IsNull(e_1.repost_id) /\ IsNull(e_2.repost_id)
         [] p.kind = "co_link" ->
                IF p.resolved THEN SqlEq(e_1.resolved_url, e_2.resolved_url)
                ELSE e_1.url = e_2.url
         [] p.kind = "co_similar_tweet" ->
                /\ IsNull(e_1.repost_id) /\ IsNull(e_2.repost_id)
                /\ ~IsNull(e_1.token_set) /\ ~IsNull(e_2.token_set)

\* The join and where conditions of each query
MatchesOthers(p, e_1, e_2) ==
    /\ e_1.message_id # e_2.message_id
    /\ Joined(p, e_1, e_2)
    /\ p.kind = "co_similar_tweet" =>
           SimAtLeast(SimValue(p, Get(e_1.token_set), Get(e_2.token_set)), p.threshold)

Matches(p, e_1, e_2) ==
    /\ Joined(p, e_1, e_2)
    /\ p.kind = "co_similar_tweet" =>
           SimAtLeast(SimValue(p, Get(e_1.token_set), Get(e_2.token_set)), p.threshold)

\* The query raises when the registered similarity function raises on a pair
\* it is called on
QueryRaises(p, rows, user_ids) ==
    /\ p.kind = "co_similar_tweet"
    /\ \E e_1, e_2 \in rows :
          /\ e_1.user_id \in user_ids
          /\ Joined(p, e_1, e_2)
          /\ SimRaises(p, Get(e_1.token_set), Get(e_2.token_set))

\* The select of each compute_* function over the temporary table user_id:
\* group by (e_1.user_id, e_2.user_id), count(distinct e_1.message_id),
\* having weight >= min_edge_weight
\* "having weight >= ?2"
HavingAny(weight, min_edge_weight) == TRUE

Having(weight, min_edge_weight) == weight >= min_edge_weight

\* "where user_1 in (select user_id from user_id)" restricts the e_1 side
QueryEitherSide(p, rows, user_ids) ==
    LET weight(u1, u2) ==
            Cardinality({e_1.message_id : e_1 \in {e \in rows :
                /\ e.user_id = u1
                /\ \E e_2 \in rows : e_2.user_id = u2 /\ Matches(p, e, e_2)}})
        users == {e.user_id : e \in rows}
    IN {r \in {<<u1, u2, weight(u1, u2)>> : u1 \in users, u2 \in users} :
            /\ r[1] \in user_ids \/ r[2] \in user_ids
            /\ r[3] >= 1 /\ Having(r[3], p.min_edge_weight)}

Query(p, rows, user_ids) ==
    LET weight(u1, u2) ==
            Cardinality({e_1.message_id : e_1 \in {e \in rows :
                /\ e.user_id = u1
                /\ \E e_2 \in rows : e_2.user_id = u2 /\ Matches(p, e, e_2)}})
        users == {e.user_id : e \in rows}
    IN {r \in {<<u1, u2, weight(u1, u2)>> : u1 \in users \cap user_ids, u2 \in users} :
            r[3] >= 1 /\ Having(r[3], p.min_edge_weight)}

\* Rows of `rows` the candidate query of each kind counts
Countable(kind, e) ==
    CASE kind = "co_retweet" -> ~IsNull(e.repost_id)
      [] kind = "co_reply" -> IsNull(e.repost_id) /\ ~IsNull(e.reply_id)
      [] kind = "co_link" -> TRUE
      [] OTHER -> IsNull(e.repost_id)

\* user_selection_query: "group by user_id having count(*) >= ?", as the
\* ascending list of user ids SQLite's group by yields
RECURSIVE Ascending(_)
Ascending(S) ==
    IF S = {} THEN <<>>
    ELSE LET m == CHOOSE x \in S : \A y \in S : x <= y
         IN <<m>> \o Ascending(S \ {m})

UserSelectionAbove(p, rows) ==
    Ascending({u \in {e.user_id : e \in rows} :
        Cardinality({e \in rows : e.user_id = u /\ Countable(p.kind, e)})
            > p.min_edge_weight})

UserSelection(p, rows) ==
    Ascending({u \in {e.user_id : e \in rows} :
        Cardinality({e \in rows : e.user_id = u /\ Countable(p.kind, e)})
            >= p.min_edge_weight /\
        \E e \in rows : e.user_id = u /\ Countable(p.kind, e)})

(***************************************************************************)
(* compute_networks.py: the compute_* functions and the engine             *)
(* parallise_query_by_user_id with its workers _run_query.                 *)
(***************************************************************************)
TargetBatchFactor == 10

Max(a, b) == IF a >= b THEN a ELSE b
Min(a, b) == IF a <= b THEN a ELSE b

\* compute_networks.py:120-126
Batches(user_ids, n_processes) ==
    LET target_batches == n_processes * TargetBatchFactor
        batch_size == Max(Len(user_ids) \div target_batches, 1)
        starts == {i \in 0..(Len(user_ids) - 1) : i % batch_size = 0}
    IN [k \in 1..Cardinality(starts) |->
            SubSeq(user_ids, (k - 1) * batch_size + 1,
                   Min(k * batch_size, Len(user_ids)))]

\* The update of the derived columns each compute_* function runs first:
\* compute_networks.py:195-205 (co_tweet) and 595-602 (co_similar_tweet)
PreparedAll(p, e) ==
    IF p.kind = "co_tweet" /\ (p.reprocess_text \/ IsNull(e.transformed_message))
    THEN [e EXCEPT
            !.transformed_message = Some(message_preprocessor(e.message)),
            !.transformed_message_length = Some(Len(message_preprocessor(e.message))),
            !.transformed_message_hash = Some(message_hash(message_preprocessor(e.message)))]
    ELSE IF p.kind = "co_similar_tweet" /\ (p.reprocess_text \/ IsNull(e.token_set))
    THEN [e EXCEPT !.token_set = Some(tokenize(e.message))]
    ELSE e

Prepared(p, e) ==
    IF ~IsNull(e.repost_id) THEN e
    ELSE IF p.kind = "co_tweet" /\ (p.reprocess_text \/ IsNull(e.transformed_message))
    THEN [e EXCEPT
            !.transformed_message = Some(message_preprocessor(e.message)),
            !.transformed_message_length = Some(Len(message_preprocessor(e.message))),
            !.transformed_message_hash = Some(message_hash(message_preprocessor(e.message)))]
    ELSE IF p.kind = "co_similar_tweet" /\ (p.reprocess_text \/ IsNull(e.token_set))
    THEN [e EXCEPT !.token_set = Some(tokenize(e.message))]
    ELSE e

\* "drop table if exists ...; create table ..."
KeepTable(rows) == rows

DropAndCreate(rows) == {}

\* "insert into {target_table} select * from local_network": the primary key
\* (user_1, user_2) makes the statement fail on a key the table already holds
KeyClash(target, rows) ==
    \E r \in rows, t \in target : r[1] = t[1] /\ r[2] = t[2]

ReplaceTable(target, rows) == rows

InsertInto(target, rows) == target \cup rows

NoRun == [kind |-> "none", time_window |-> 0, min_edge_weight |-> 1, n_threads |-> 1,
          threshold |-> <<1, 1>>, min_tokens |-> 0, reprocess_text |-> FALSE,
          resolved |-> FALSE]

\* Two calls that differ at most in n_threads
SameButThreads(p, q) == [p EXCEPT !.n_threads = q.n_threads] = q

SameButWeight(p, q) == [p EXCEPT !.min_edge_weight = q.min_edge_weight] = q

\* "create index if not exists ... on resolved_message_url" raises when
\* resolve_all_urls has not created the table, compute_networks.py:451-457
NoSuchTable(p) == p.kind = "co_link" /\ p.resolved /\ IsNull(resolved_message_url)

\* A compute_* function up to the end of the submission loop,
\* compute_networks.py:128-140.  A statement that raises inside the function's
\* transaction leaves the tables as they were.
compute(p) ==
    /\ p.kind = study
    /\ pc # "running"
    /\ Settled
    /\ IF NoSuchTable(p)
       THEN /\ pc' = "compute_failed"
            /\ batches' = <<>>
            /\ fut' = <<>>
            /\ local' = <<>>
            /\ waiting' = {}
            /\ prev' = Null
            /\ UNCHANGED <<edge, net>>
       ELSE /\ LET prepared == {Prepared(p, e) : e \in edge}
                   rows == IF p.kind = "co_link" THEN SourceRows(p) ELSE prepared
                   user_ids == UserSelection(p, rows)
                   bs == Batches(user_ids, p.n_threads)
               IN /\ edge' = prepared
                  /\ net' = [net EXCEPT ![p.kind] = DropAndCreate(@)]
                  /\ batches' = bs
                  /\ fut' = [i \in 1..Len(bs) |-> "pending"]
                  /\ local' = [i \in 1..Len(bs) |-> {}]
                  /\ waiting' = 1..Len(bs)
            /\ pc' = "running"
            /\ prev' = IF pc = "returned"
                          /\ (SameButThreads(p, params) \/ SameButWeight(p, params))
                       THEN Some([n_threads |-> params.n_threads,
                                  min_edge_weight |-> params.min_edge_weight,
                                  edge |-> edge, rows |-> net[p.kind]])
                       ELSE Null
    /\ params' = p
    /\ lock' = 0
    /\ rolledBack' = 0
    /\ out' = Null
    /\ resolver' = Null
    /\ UNCHANGED <<message_url, resolved_url, firstSeen, study, resolved_message_url>>

\* _run_query up to the commit of local_network, compute_networks.py:720-754.
\* The pool starts the calls in submission order, n_processes at a time.
RunQuery(i) ==
    /\ i \in DOMAIN fut
    /\ fut[i] = "pending"
    /\ \A j \in 1..(i - 1) : fut[j] # "pending"
    /\ Cardinality(Busy) < params.n_threads
    /\ LET user_ids == Range(batches[i]) IN
       IF QueryRaises(params, SourceRows(params), user_ids)
       THEN /\ fut' = [fut EXCEPT ![i] = "failed"]
            /\ local' = local
       ELSE /\ fut' = [fut EXCEPT ![i] = "computed"]
            /\ local' = [local EXCEPT ![i] =
                            Query(params, SourceRows(params), user_ids)]
    /\ UNCHANGED <<store, net, pc, params, batches, lock, waiting, prev,
                   firstSeen, rolledBack, study, resolved_message_url, out, resolver>>

\* "with lock": the worker takes the manager lock, compute_networks.py:759
AcquireWithoutLock(i) ==
    /\ i \in DOMAIN fut
    /\ fut[i] = "computed"
    /\ lock' = i
    /\ fut' = [fut EXCEPT ![i] = "locked"]
    /\ UNCHANGED <<store, net, pc, params, batches, local, waiting, prev,
                   firstSeen, rolledBack, study, resolved_message_url, out, resolver>>

AcquireLock(i) ==
    /\ i \in DOMAIN fut
    /\ fut[i] = "computed"
    /\ lock = 0
    /\ lock' = i
    /\ fut' = [fut EXCEPT ![i] = "locked"]
    /\ UNCHANGED <<store, net, pc, params, batches, local, waiting, prev,
                   firstSeen, rolledBack, study, resolved_message_url, out, resolver>>

\* The insert into the target table and its commit, compute_networks.py:759-760;
\* a failing insert leaves the with block, which releases the lock
AppendLocal(i) ==
    /\ i \in DOMAIN fut
    /\ fut[i] = "locked"
    /\ IF KeyClash(net[params.kind], local[i])
       THEN /\ fut' = [fut EXCEPT ![i] = "failed"]
            /\ lock' = 0
            /\ net' = net
       ELSE /\ fut' = [fut EXCEPT ![i] = "appended"]
            /\ lock' = lock
            /\ net' = [net EXCEPT ![params.kind] = InsertInto(@, local[i])]
    /\ UNCHANGED <<store, pc, params, batches, local, waiting, prev,
                   firstSeen, rolledBack, study, resolved_message_url, out, resolver>>

\* Leaving "with lock, db": the lock is released after the commit
ReleaseLock(i) ==
    /\ i \in DOMAIN fut
    /\ fut[i] = "appended"
    /\ lock' = 0
    /\ fut' = [fut EXCEPT ![i] = "done"]
    /\ UNCHANGED <<store, net, pc, params, batches, local, waiting, prev,
                   firstSeen, rolledBack, study, resolved_message_url, out, resolver>>

\* One round of the engine's loop, compute_networks.py:142-151: wait returns
\* the futures that have finished, and result() raises a worker's error
Wait ==
    /\ pc = "running"
    /\ LET done == {i \in waiting : fut[i] \in {"done", "failed"}} IN
       /\ done # {}
       /\ IF \E i \in done : fut[i] = "failed"
          THEN pc' = "raised" /\ waiting' = waiting \ done
          ELSE pc' = pc /\ waiting' = waiting \ done
    /\ UNCHANGED <<store, net, params, batches, fut, local, lock, prev,
                   firstSeen, rolledBack, study, resolved_message_url, out, resolver>>

\* The engine returns once nothing is waiting, compute_networks.py:153-157
Return ==
    /\ pc = "running"
    /\ waiting = {}
    /\ pc' = "returned"
    /\ UNCHANGED <<store, net, params, batches, fut, local, lock, waiting, prev,
                   firstSeen, rolledBack, study, resolved_message_url, out, resolver>>

(***************************************************************************)
(* Input tuples of the ingestion specification.                            *)
(***************************************************************************)
IngestTuples ==
    [message_id : 1..2, user_id : {1}, username : {"n"},
     repost_id : {"", "r1"}, reply_id : {""}, message : {<<"a">>},
     timestamp : {"0", "1", "x"}, urls : {Null, Some(<<"u1">>)}]

InitStore(kind) ==
    /\ study = kind
    /\ edge = {}
    /\ message_url = {}
    /\ resolved_url = {}
    /\ net = [k \in Kinds |-> {}]
    /\ pc = "idle"
    /\ params = NoRun
    /\ batches = <<>>
    /\ fut = <<>>
    /\ local = <<>>
    /\ lock = 0
    /\ waiting = {}
    /\ prev = Null
    /\ firstSeen = {}
    /\ rolledBack = 0
    /\ resolved_message_url = Null
    /\ resolver = Null

InitStudying(kind) == InitStore(kind) /\ out = Null

Init == InitStudying("co_retweet")

Ingest == \E messages \in SetToSeqs(IngestTuples) : preprocess_data(messages)

NextIngest == Ingest

SpecIngest == Init /\ [][NextIngest]_vars

(***************************************************************************)
(* The co-retweet workflow of tests/test_graph_construction.py: ingestion  *)
(* of repost tuples and compute_co_retweet_parallel with 1, 2 and 4        *)
(* processes.                                                              *)
(***************************************************************************)
Threads == {1, 2, 4}
Windows == 0..MaxWindow
MinEdgeWeights == 1..MaxMinEdgeWeight

RetweetTuples ==
    [message_id : MsgIds, user_id : Users, username : {"n"},
     repost_id : {"", "r1"}, reply_id : {""}, message : {<<"a">>},
     timestamp : {"0", "1"}, urls : {Some(<<>>)}]

IngestRetweets == \E t \in RetweetTuples : preprocess_data(<<t>>)

compute_co_retweet_parallel ==
    \E time_window \in Windows, n_threads \in Threads, min_edge_weight \in MinEdgeWeights :
        compute([NoRun EXCEPT !.kind = "co_retweet", !.time_window = time_window,
                              !.n_threads = n_threads,
                              !.min_edge_weight = min_edge_weight])

Worker ==
    \E i \in DOMAIN fut : RunQuery(i) \/ AcquireLock(i) \/ AppendLocal(i) \/ ReleaseLock(i)

Next ==
    \/ IngestRetweets
    \/ compute_co_retweet_parallel
    \/ Worker
    \/ Wait
    \/ Return

Spec == Init /\ [][Next]_vars

(***************************************************************************)
(* Properties of the co-retweet computation.                               *)
(***************************************************************************)
Returned(kind) == pc = "returned" /\ params.kind = kind

\* C1: two runs of compute_co_retweet_parallel on the same store with the
\* same time_window and min_edge_weight leave the same rows in
\* co_retweet_network whatever their n_threads (1, 2 or 4) and whatever the
\* interleaving of their workers.
C1_ParallelEquivalence ==
    (/\ Returned("co_retweet")
     /\ ~IsNull(prev)
     /\ Get(prev).edge = edge
     /\ Get(prev).min_edge_weight = params.min_edge_weight)
        => net["co_retweet"] = Get(prev).rows

\* Two runs with different n_threads, the second with several batches and
\* a non-empty result
C1_Witness ==
    /\ Returned("co_retweet")
    /\ ~IsNull(prev)
    /\ Get(prev).edge = edge
    /\ Get(prev).min_edge_weight = params.min_edge_weight
    /\ Get(prev).n_threads # params.n_threads
    /\ Len(batches) >= 2
    /\ Cardinality(net["co_retweet"]) >= 3

\* C2: after a computation every row (u1, u2, w) with u1 # u2 has its mirror
\* row (u2, u1, w) with the same weight.
C2_Symmetry ==
    pc = "returned" =>
        \A r \in net[params.kind] :
            r[1] # r[2] => <<r[2], r[1], r[3]>> \in net[params.kind]

\* The relation C4 states, written from the stored messages: the messages of
\* u1 that have a repost_id which a message of u2 within the window shares
CoRetweeting(u1, u2, time_window) ==
    {e1.message_id : e1 \in {e \in edge :
        /\ e.user_id = u1
        /\ ~IsNull(e.repost_id)
        /\ \E e2 \in edge :
              /\ e2.user_id = u2
              /\ e2.repost_id = e.repost_id
              /\ e2.timestamp - e.timestamp <= time_window
              /\ e.timestamp - e2.timestamp <= time_window}}

\* C4: co_retweet_network holds the row (u1, u2, w) exactly when w is the
\* number of messages of u1 co-retweeting with u2 and w >= min_edge_weight
\* (w >= 1, as min_edge_weight is).
C4_CoRetweetReference ==
    Returned("co_retweet") =>
        net["co_retweet"] =
            {r \in Users \X Users \X (1..MaxMsgId) :
                /\ r[3] = Cardinality(CoRetweeting(r[1], r[2], params.time_window))
                /\ r[3] >= params.min_edge_weight}

\* A pair of users that co-retweets only across a timestamp difference equal
\* to time_window, and a weight of 2
C4_Witness ==
    /\ Returned("co_retweet")
    /\ params.time_window = 1
    /\ \E r \in net["co_retweet"] :
          /\ r[1] # r[2]
          /\ r[3] = 2
          /\ CoRetweeting(r[1], r[2], 0) = {}

\* The repost messages of a user
RepostsOf(u) == {e \in edge : e.user_id = u /\ ~IsNull(e.repost_id)}

\* C11: every message pairs with itself in the join, so after a co_retweet
\* computation every user u with n >= 1 repost messages and
\* n >= min_edge_weight has the row (u, u, n) in co_retweet_network.
C11_SelfPairsKept ==
    Returned("co_retweet") =>
        \A u \in Users :
            LET n == Cardinality(RepostsOf(u)) IN
            (n >= 1 /\ n >= params.min_edge_weight) => <<u, u, n>> \in net["co_retweet"]

\* The only user with reposts has two of them at different times, outside
\* each other's window, and min_edge_weight is 2
C11_Witness ==
    /\ Returned("co_retweet")
    /\ params.min_edge_weight = 2
    /\ params.time_window = 0
    /\ \E u \in Users :
          /\ net["co_retweet"] = {<<u, u, 2>>}
          /\ \E e1, e2 \in RepostsOf(u) : e1.timestamp # e2.timestamp

\* The workers inside "with lock, db"
Appending == {i \in DOMAIN fut : fut[i] \in {"locked", "appended"}}

\* C22: at most one worker at a time is inside the append step and it holds
\* the lock, from before its insert until after its commit; the rows of a
\* batch are in the target table all together, once its worker has committed,
\* or not at all.
C22_SerializedAppend ==
    /\ Cardinality(Appending) <= 1
    /\ \A i \in Appending : lock = i
    /\ \A i \in DOMAIN fut :
          IF fut[i] \in {"appended", "done"}
          THEN local[i] \subseteq net[params.kind]
          ELSE local[i] \cap net[params.kind] = {}

\* A worker has committed its rows and still holds the lock while another,
\* with rows to append, waits for it
C22_Witness ==
    \E i, j \in DOMAIN fut :
        /\ fut[i] = "appended"
        /\ local[i] # {}
        /\ fut[j] = "computed"
        /\ local[j] # {}
        /\ lock = i

(***************************************************************************)
(* Properties of ingestion.                                                *)
(***************************************************************************)
Tables(db) == <<db.edge, db.message_url, db.resolved_url>>
Reorderings(b) == {c \in SetToSeqs(Range(b)) : Range(c) = Range(b)}

\* C7: from every store ingestion reaches, ingesting a batch and then the same
\* set of tuples again (in any order) leaves edge, message_url and resolved_url
\* exactly as they were after the first of the two ingestions.
C7_IdempotentIngestion ==
    \A b \in SetToSeqs(IngestTuples) :
        LET once == Ingested(Db, b) IN
        \A c \in Reorderings(b) :
            Tables(Ingested(once, c)) = Tables(once)

\* A committed batch of two tuples for one message_id that carried a url
C7_Witness ==
    /\ pc = "ingested"
    /\ message_url # {}
    /\ Cardinality(edge) = 2
    /\ \E b \in SetToSeqs(firstSeen) :
          /\ Len(b) = 2
          /\ b[1] # b[2]
          /\ Tables(Ingested(Db, b)) = Tables(Db)

\* C8: edge holds at most one row per message_id, and the row is the one the
\* first committed tuple of that id produced; later tuples change no column.
C8_FirstTupleKept ==
    /\ \A r1, r2 \in edge : r1.message_id = r2.message_id => r1 = r2
    /\ \A r \in edge : \E t \in firstSeen :
          t.message_id = r.message_id /\ ~FloatRaises(t.timestamp) /\ r = Processed(t)
    /\ \A t1, t2 \in firstSeen : t1.message_id = t2.message_id => t1 = t2

\* Both message ids are stored and the last committed batch could not have
\* added a row
C8_Witness ==
    /\ pc = "ingested"
    /\ Cardinality(edge) = 2
    /\ \E t \in IngestTuples :
          /\ ~FloatRaises(t.timestamp)
          /\ Processed(t) \notin edge
          /\ Tables(Ingested(Db, <<t>>)) = Tables(Db)

\* C9: a call of preprocess_data that raises leaves edge, message_url and
\* resolved_url as they were before the call.
C9_FailedBatchRolledBack ==
    [][pc' = "ingest_failed" => UNCHANGED store]_vars

\* A failed batch had already written rows when it raised
C9_Witness == pc = "ingest_failed" /\ rolledBack > 0 /\ edge # {}

\* C19: a tuple whose urls field is None is accepted as one with no urls: the
\* batch commits, the message is in edge and it gets no message_url row.
C19_NoneUrlsAccepted ==
    \A t \in IngestTuples :
        (IsNull(t.urls) /\ ~FloatRaises(t.timestamp)) =>
            LET after == InsertRows(Db, <<t>>, 1) IN
            /\ ~after.raised
            /\ \E e \in after.edge : e.message_id = t.message_id
            /\ after.message_url = message_url

(***************************************************************************)
(* All five network kinds over a store of mixed messages: reposts, replies *)
(* and plain messages, with and without a url.                             *)
(***************************************************************************)
KindsMaxMsgId == 2

\* What varies in the tuples a behaviour studying `kind` ingests: the field
\* the kind's query joins on, and whether the message is a repost
ContentFor(kind) ==
    LET c(repost_id, reply_id, message, urls) ==
            [repost_id |-> repost_id, reply_id |-> reply_id, message |-> message,
             urls |-> urls]
    IN CASE kind = "co_retweet" ->
                {c("r1", "", <<"a">>, Some(<<>>)), c("r2", "", <<"a">>, Some(<<>>)),
                 c("", "", <<"a">>, Some(<<>>))}
         [] kind = "co_tweet" ->
                {c("", "", <<"a">>, Some(<<>>)), c("", "", <<"@", "b", " ", "A">>, Some(<<>>)),
                 c("", "", <<"b">>, Some(<<>>)), c("r1", "", <<"a">>, Some(<<>>))}
         [] kind = "co_reply" ->
                {c("", "p1", <<"a">>, Some(<<>>)), c("", "", <<"a">>, Some(<<>>)),
                 c("r1", "p1", <<"a">>, Some(<<>>))}
         [] kind = "co_link" ->
                {c("", "", <<"a">>, Some(<<"u1">>)), c("", "", <<"a">>, Some(<<>>)),
                 c("r1", "", <<"a">>, Some(<<"u1">>))}
         [] kind = "co_similar_tweet" ->
                {c("", "", <<>>, Some(<<>>)), c("", "", <<"a">>, Some(<<>>)),
                 c("", "", <<"b", " ", "A">>, Some(<<>>)), c("r1", "", <<"a">>, Some(<<>>))}

KindsTuples(kind) ==
    LET base == [message_id : 1..KindsMaxMsgId, user_id : Users, username : {"n"},
                 timestamp : {"0", "1"}]
    IN {[message_id |-> b.message_id, user_id |-> b.user_id, username |-> b.username,
         repost_id |-> c.repost_id, reply_id |-> c.reply_id, message |-> c.message,
         timestamp |-> b.timestamp, urls |-> c.urls] :
            b \in base, c \in ContentFor(kind)}

IngestMixed == \E t \in KindsTuples(study) : preprocess_data(<<t>>)

\* The n_threads and similarity arguments of the runs of this specification
KindsThreads == {2}
Thresholds == {<<9, 10>>}
MinTokens == {0, 1}

\* compute_co_retweet_parallel, compute_co_tweet_network,
\* compute_co_reply_network and compute_co_link_network
compute_plain ==
    \E kind \in Kinds \ {"co_similar_tweet"}, time_window \in Windows,
       n_threads \in KindsThreads, min_edge_weight \in MinEdgeWeights :
        compute([NoRun EXCEPT !.kind = kind, !.time_window = time_window,
                              !.n_threads = n_threads,
                              !.min_edge_weight = min_edge_weight])

\* compute_co_similar_tweet with the similarity function of
\* get_similarity_fn_from_min_size
compute_co_similar_tweet ==
    \E time_window \in Windows, n_threads \in KindsThreads,
       min_edge_weight \in MinEdgeWeights, threshold \in Thresholds,
       min_tokens \in MinTokens :
        compute([NoRun EXCEPT !.kind = "co_similar_tweet",
                              !.time_window = time_window,
                              !.n_threads = n_threads,
                              !.min_edge_weight = min_edge_weight,
                              !.threshold = threshold,
                              !.min_tokens = min_tokens])

NextKinds ==
    \/ IngestMixed
    \/ compute_plain
    \/ compute_co_similar_tweet
    \/ Worker
    \/ Wait
    \/ Return

InitKinds == \E kind \in Kinds : InitStudying(kind)

SpecKinds == InitKinds /\ [][NextKinds]_vars

(***************************************************************************)
(* Properties of the computations of every kind.                           *)
(***************************************************************************)
\* C3: after a computation run with min_edge_weight, every row of the kind's
\* edge table has weight >= min_edge_weight.
C3_Threshold ==
    pc \in {"returned", "raised"} =>
        \A r \in net[params.kind] : r[3] >= params.min_edge_weight

\* A run of another kind than co_retweet with min_edge_weight 2 that kept a row
C3_Witness ==
    /\ pc = "returned"
    /\ params.kind \in {"co_tweet", "co_reply", "co_link", "co_similar_tweet"}
    /\ params.min_edge_weight = 2
    /\ net[params.kind] # {}

\* The messages whose stored row has a repost_id
Reposts == {e.message_id : e \in {x \in edge : ~IsNull(x.repost_id)}}
AllUsers(rows) == {e.user_id : e \in rows}

\* C5: no message stored with a repost_id contributes to the co_tweet,
\* co_reply, co_similar_tweet or co_link table: message_url has no row of such
\* a message, and the table is the one the other messages alone produce.
C5_RepostExclusion ==
    (pc = "returned" /\ params.kind # "co_retweet") =>
        LET rows == {e \in SourceRows(params) : e.message_id \notin Reposts}
        IN /\ \A m \in message_url : m.message_id \notin Reposts
           /\ net[params.kind] = Query(params, rows, AllUsers(rows))

\* C6: a computation leaves in its table the rows its own workers produced
\* and nothing else, whatever an earlier run left there; and the same
\* computation run twice on an unchanged store leaves the same rows.
C6_DropAndRebuild ==
    pc = "returned" =>
        /\ net[params.kind] = UNION {local[i] : i \in DOMAIN local}
        /\ (/\ ~IsNull(prev)
            /\ Get(prev).edge = edge
            /\ Get(prev).n_threads = params.n_threads
            /\ Get(prev).min_edge_weight = params.min_edge_weight)
               => net[params.kind] = Get(prev).rows

\* A run that follows a run with another min_edge_weight whose rows are gone
C6_Witness ==
    /\ pc = "returned"
    /\ params.kind # "co_retweet"
    /\ ~IsNull(prev)
    /\ Get(prev).min_edge_weight # params.min_edge_weight
    /\ Get(prev).rows # {}
    /\ net[params.kind] # Get(prev).rows

\* C14: the plain similarity function returns 0 when both token sets are
\* empty, so no worker of a co_similar_tweet computation with the plain
\* function fails, whatever token sets the store holds.
C14_EmptyTokenSets ==
    (params.kind = "co_similar_tweet" /\ params.min_tokens = 0) =>
        \A i \in DOMAIN fut : fut[i] # "failed"

\* C21: every row of a worker's local_network has user_1 in the worker's
\* batch and the batches are pairwise disjoint, so no append meets a key the
\* target table holds and the table has at most one row per (user_1, user_2).
C21_OneWorkerPerPair ==
    /\ \A i \in DOMAIN local : \A r \in local[i] : r[1] \in Range(batches[i])
    /\ \A i, j \in DOMAIN batches :
          i # j => Range(batches[i]) \cap Range(batches[j]) = {}
    /\ \A i \in DOMAIN fut :
          fut[i] = "locked" => ~KeyClash(net[params.kind], local[i])
    /\ params.kind \in Kinds =>
          \A r1, r2 \in net[params.kind] :
              (r1[1] = r2[1] /\ r1[2] = r2[2]) => r1 = r2

\* Two workers each produced one direction of the same pair of users
C21_Witness ==
    /\ pc = "returned"
    /\ Len(batches) = 2
    /\ \E r \in local[1], q \in local[2] : r[1] = q[2] /\ r[2] = q[1]
    /\ local[1] \cup local[2] = net[params.kind]

\* C24: the table a computation leaves is the one the query yields with all
\* users as candidates: no user the candidate query excludes is user_1 of a
\* row with weight >= min_edge_weight.
C24_PruningSound ==
    pc = "returned" =>
        LET rows == SourceRows(params) IN
        net[params.kind] = Query(params, rows, AllUsers(rows))

\* A user with stored messages was in no batch, and the table has rows
C24_Witness ==
    /\ pc = "returned"
    /\ params.kind # "co_retweet"
    /\ net[params.kind] # {}
    /\ \E u \in AllUsers(edge) : \A i \in DOMAIN batches : u \notin Range(batches[i])

\* The derived columns of co-tweet are all null, or all filled
Unfilled(e) ==
    /\ IsNull(e.transformed_message)
    /\ IsNull(e.transformed_message_length)
    /\ IsNull(e.transformed_message_hash)

Filled(e) ==
    /\ ~IsNull(e.transformed_message)
    /\ ~IsNull(e.transformed_message_length)
    /\ ~IsNull(e.transformed_message_hash)

\* C25: compute_co_tweet_network with reprocess_text=False fills the derived
\* columns of the non-repost rows where transformed_message is null with the
\* normalizer's output, keeps the rows where it is not null and the repost
\* rows as they are, and changes nothing else in edge, so that every
\* non-repost row is filled afterwards, whenever it was ingested.
C25_LazyDerivedColumns ==
    [][(pc # "running" /\ pc' = "running"
            /\ params'.kind = "co_tweet" /\ ~params'.reprocess_text) =>
        /\ Cardinality(edge') = Cardinality(edge)
        /\ \A e \in edge :
              IF ~IsNull(e.repost_id) \/ ~IsNull(e.transformed_message)
              THEN e \in edge'
              ELSE [e EXCEPT
                      !.transformed_message = Some(message_preprocessor(e.message)),
                      !.transformed_message_length =
                          Some(Len(message_preprocessor(e.message))),
                      !.transformed_message_hash =
                          Some(message_hash(message_preprocessor(e.message)))] \in edge'
        /\ \A f \in edge' :
              IF IsNull(f.repost_id) THEN Filled(f) ELSE Unfilled(f)]_vars

\* After a co-tweet run: a message the normalizer changed, filled, and a
\* repost left unfilled
C25_Witness ==
    /\ pc = "returned"
    /\ params.kind = "co_tweet"
    /\ \E e \in edge :
          /\ IsNull(e.repost_id)
          /\ Filled(e)
          /\ e.transformed_message # Some(e.message)
    /\ \E e \in edge : ~IsNull(e.repost_id) /\ Unfilled(e)

\* C10: once a worker's error has been raised to the caller of
\* parallise_query_by_user_id, no batch appends rows to the target table.
C10_FailFast == [][pc = "raised" => net' = net]_vars

(***************************************************************************)
(* graph.py: the output functions get_edge_rows and get_node_rows.         *)
(***************************************************************************)
\* The where clause of each of the four queries of get_edge_rows
EdgeFilterLoose(symmetric, loops, r) ==
    IF symmetric /\ loops THEN TRUE
    ELSE IF symmetric THEN r[1] # r[2]
    ELSE r[2] >= r[1]

EdgeFilter(symmetric, loops, r) ==
    IF symmetric /\ loops THEN TRUE
    ELSE IF symmetric THEN r[1] # r[2]
    ELSE IF loops THEN r[2] >= r[1]
    ELSE r[2] > r[1]

\* get_edge_rows(db_path, command, symmetric, loops), graph.py:7-31, on the
\* table of the computation that has just returned
get_edge_rows(command, symmetric, loops) ==
    /\ pc = "returned"
    /\ command \in Kinds => command = params.kind
    /\ pc' = "exported"
    /\ out' = IF command \notin Kinds
              THEN Some([call |-> "get_edge_rows", command |-> command,
                         symmetric |-> symmetric, loops |-> loops,
                         raised |-> TRUE, rows |-> {}])
              ELSE Some([call |-> "get_edge_rows", command |-> command,
                         symmetric |-> symmetric, loops |-> loops,
                         raised |-> FALSE,
                         rows |-> {<<r[1], r[2], r[3], command>> :
                                     r \in {x \in net[command] :
                                              EdgeFilter(symmetric, loops, x)}}])
    /\ UNCHANGED <<store, engine, study, firstSeen, rolledBack, resolved_message_url,
                   resolver>>

\* "select max(username) from edge where user_id = ?": the greatest username
\* in the order of strings
MaxUsername(rows) ==
    LET names == {e.username : e \in rows}
    IN CHOOSE x \in names : \A y \in names \ {x} : StrLess(y, x)

\* The orders "order by timestamp desc" may return a user's rows in
DescOrders(rows) ==
    {o \in [1..Cardinality(rows) -> rows] :
        /\ \A i, j \in DOMAIN o : i # j => o[i] # o[j]
        /\ \A i, j \in DOMAIN o : i < j => o[i].timestamp >= o[j].timestamp}

\* "limit ?" and tweets.extend([""] * (n_messages - len(tweets)))
Padded(o, n_messages) ==
    [i \in 1..n_messages |-> IF i <= Len(o) THEN o[i].message ELSE <<>>]

\* The lists get_node_rows may yield, one row per user_id of edge
NodeRows(n_messages) ==
    LET users == {e.user_id : e \in edge}
        of(u) == {e \in edge : e.user_id = u}
        orders == {g \in [users -> UNION {DescOrders(of(u)) : u \in users}] :
                      \A u \in users : g[u] \in DescOrders(of(u))}
    IN {[u \in users |-> [username |-> MaxUsername(of(u)),
                          tweets |-> Padded(g[u], n_messages)]] : g \in orders}

\* get_node_rows(db_path, n_messages), graph.py:34-64
get_node_rows(n_messages) ==
    /\ pc \in {"ingested", "returned"}
    /\ Settled
    /\ pc' = "nodes_listed"
    /\ \E rows \in NodeRows(n_messages) :
          out' = Some([call |-> "get_node_rows", n_messages |-> n_messages,
                       rows |-> rows])
    /\ UNCHANGED <<store, engine, study, firstSeen, rolledBack, resolved_message_url,
                   resolver>>

(***************************************************************************)
(* Export after a co-retweet computation: users that change their username *)
(* and repost with different texts.                                        *)
(***************************************************************************)
OutputTuples ==
    [message_id : 1..KindsMaxMsgId, user_id : Users, username : {<<"a">>, <<"b">>},
     repost_id : {"r1"}, reply_id : {""}, message : {<<"a">>, <<"b">>},
     timestamp : {"0", "1"}, urls : {Some(<<>>)}]

Commands == Kinds \cup {"co_like"}
NMessages == {1, 3}

IngestOutput == \E t \in OutputTuples : preprocess_data(<<t>>)

compute_for_output ==
    \E time_window \in Windows, min_edge_weight \in MinEdgeWeights,
       n_threads \in KindsThreads :
        compute([NoRun EXCEPT !.kind = "co_retweet", !.time_window = time_window,
                              !.n_threads = n_threads,
                              !.min_edge_weight = min_edge_weight])

export_network ==
    \E command \in Commands, symmetric \in BOOLEAN, loops \in BOOLEAN :
        get_edge_rows(command, symmetric, loops)

export_user_nodes == \E n_messages \in NMessages : get_node_rows(n_messages)

NextOutput ==
    \/ IngestOutput
    \/ compute_for_output
    \/ Worker
    \/ Wait
    \/ Return
    \/ export_network
    \/ export_user_nodes

SpecOutput == Init /\ [][NextOutput]_vars

\* C12: get_edge_rows returns the rows of the kind's table with
\* user_2 > user_1 when symmetric and loops are false, user_2 >= user_1 when
\* only loops is true, user_1 # user_2 when only symmetric is true and all
\* rows when both are true, each with the kind as fourth field; an unknown
\* kind raises.
C12_EdgeRows ==
    (pc = "exported" /\ Get(out).call = "get_edge_rows") =>
        LET o == Get(out)
            kept(r) == CASE ~o.symmetric /\ ~o.loops -> r[2] > r[1]
                         [] ~o.symmetric /\ o.loops -> r[2] >= r[1]
                         [] o.symmetric /\ ~o.loops -> r[1] # r[2]
                         [] o.symmetric /\ o.loops -> TRUE
        IN IF o.command \notin Kinds
           THEN o.raised
           ELSE /\ ~o.raised
                /\ \A r \in o.rows : r[4] = o.command /\ <<r[1], r[2], r[3]>> \in net[o.command]
                /\ \A r \in net[o.command] :
                      kept(r) <=> <<r[1], r[2], r[3], o.command>> \in o.rows

\* Neither flag is set, the table holds loops and both directions of a pair,
\* and one row is returned
C12_Witness ==
    /\ pc = "exported"
    /\ Get(out).call = "get_edge_rows"
    /\ ~Get(out).symmetric /\ ~Get(out).loops /\ ~Get(out).raised
    /\ Cardinality(net["co_retweet"]) = 4
    /\ Cardinality(Get(out).rows) = 1

\* C13: the annotation of a user carries the username of the user's message
\* with the greatest timestamp, then the texts of the user's most recent
\* messages by descending timestamp, padded with empty texts to n_messages
\* entries.
C13_NodeAnnotation ==
    pc = "nodes_listed" =>
        \A u \in DOMAIN Get(out).rows :
            LET row == Get(out).rows[u]
                mine == {e \in edge : e.user_id = u}
            IN /\ \E e \in mine :
                    /\ \A x \in mine : x.timestamp <= e.timestamp
                    /\ row.username = e.username
               /\ Len(row.tweets) = Get(out).n_messages
               /\ \E o \in DescOrders(mine) :
                    \A i \in 1..Get(out).n_messages :
                        row.tweets[i] = IF i <= Len(o) THEN o[i].message ELSE <<>>

(***************************************************************************)
(* The similarity function on its own: calls of similarity(tokens_1,       *)
(* tokens_2) on strings of the tokens "a" and "b" and spaces.              *)
(***************************************************************************)
MaxTextLen == 3

TokenStrings == UNION {[1..n -> {"a", "b", " "}] : n \in 0..MaxTextLen}

InitSimilarity ==
    /\ InitStore("co_similar_tweet")
    /\ \E tokens_1, tokens_2 \in TokenStrings :
          out = Some([call |-> "similarity", tokens_1 |-> tokens_1,
                      tokens_2 |-> tokens_2, returned |-> FALSE, raised |-> FALSE,
                      value |-> <<0, 1>>])

\* The call similarity(tokens_1, tokens_2), similarity.py:48-51
call_similarity ==
    /\ ~IsNull(out)
    /\ Get(out).call = "similarity"
    /\ ~Get(out).returned /\ ~Get(out).raised
    /\ LET o == Get(out) IN
       out' = IF SimilarityRaises(o.tokens_1, o.tokens_2)
              THEN Some([o EXCEPT !.raised = TRUE])
              ELSE Some([o EXCEPT !.returned = TRUE,
                                  !.value = similarity(o.tokens_1, o.tokens_2)])
    /\ UNCHANGED <<store, engine, pc, study, firstSeen, rolledBack, resolved_message_url,
                   resolver>>

NextSimilarity == call_similarity

SpecSimilarity == InitSimilarity /\ [][NextSimilarity]_vars

\* The tokens of a token string
TokensOf(tokens) == {w \in Range(Split(tokens)) : w # <<>>}

\* C15: for token strings with at least one token between them,
\* similarity(a, b) is in [0, 1], is 1 when the two token sets are equal
\* (whatever the order and repetition of tokens in the strings) and is 0 when
\* the sets are non-empty and disjoint.
C15_JaccardBounds ==
    LET o == Get(out)
        A == TokensOf(o.tokens_1)
        B == TokensOf(o.tokens_2)
    IN (o.call = "similarity" /\ (o.returned \/ o.raised) /\ A \cup B # {}) =>
          /\ o.returned
          /\ o.value[2] > 0
          /\ 0 <= o.value[1] /\ o.value[1] <= o.value[2]
          /\ A = B => o.value[1] = o.value[2]
          /\ (A # {} /\ B # {} /\ A \cap B = {}) => o.value[1] = 0

\* Equal token sets written in another order, and with a repeated token
C15_Witness ==
    LET o == Get(out) IN
    /\ o.call = "similarity"
    /\ o.returned
    /\ o.value[1] = o.value[2]
    /\ \/ o.tokens_1 = <<"a", " ", "b">> /\ o.tokens_2 = <<"b", " ", "a">>
       \/ o.tokens_1 = <<"a", " ", "a">> /\ o.tokens_2 = <<"a">>

(***************************************************************************)
(* urls.py: resolve_url and resolve_all_urls.                              *)
(***************************************************************************)
ErrorStatuses == {"Timeout", "TooManyRedirects", "SSLError", "ConnectionError",
                  "OtherError"}

\* What session.head(url, allow_redirects=True) may do: return the response
\* of the end of the chain, or raise.  `response` is the e.response of the
\* exception: requests attaches the last response it received to
\* TooManyRedirects, and none to the errors its adapter raises.
Heads ==
    {[status |-> "200", response |-> Some("f")]}
        \cup {[status |-> st, response |-> Null] : st \in ErrorStatuses}
        \cup {[status |-> "TooManyRedirects", response |-> Some("h")]}

\* resolve_url, urls.py:17-96.  heads[1] is the outcome of the request of the
\* first call, heads[2] of the call that follows an SSLError.
RECURSIVE resolve_url(_, _, _)
resolve_url(url, heads, verify_ssl) ==
    LET h == IF verify_ssl THEN heads[1] ELSE heads[2] IN
    IF h.status = "SSLError" /\ verify_ssl
    THEN resolve_url(url, heads, FALSE)
    ELSE [url |-> url,
          resolved_url |-> IF IsNull(h.response) THEN Some(url) ELSE h.response,
          ssl_verified |-> Some(verify_ssl),
          resolved_status |-> Some(h.status)]

\* "from message_url inner join resolved_url using(url)"
CrossJoin(mu, ru) ==
    {[message_id |-> m.message_id, resolved_url |-> r.resolved_url,
      timestamp |-> m.timestamp, user_id |-> m.user_id] : m \in mu, r \in ru}

ResolvedJoin(mu, ru) ==
    {[message_id |-> x[1].message_id, resolved_url |-> x[2].resolved_url,
      timestamp |-> x[1].timestamp, user_id |-> x[1].user_id] :
        x \in {y \in mu \X ru : y[1].url = y[2].url}}

\* Two rows the primary key (message_id, resolved_url) does not admit together
SameKey(r1, r2) ==
    /\ r1.message_id = r2.message_id
    /\ SqlEq(r1.resolved_url, r2.resolved_url)

\* The tables "insert or ignore into resolved_message_url select ..." may
\* leave: of the joined rows with one key the first the select yields is
\* kept, and the select's order is not fixed
Rebuilds(mu, ru) ==
    LET joined == ResolvedJoin(mu, ru) IN
    {T \in SUBSET joined :
        /\ \A j \in joined : \E t \in T : t = j \/ SameKey(t, j)
        /\ \A t1, t2 \in T : SameKey(t1, t2) => t1 = t2}

\* resolve_all_urls(db_path, max_redirects), urls.py:99-193, when the requests
\* end as `responses` allows
resolve_all_urls(responses) ==
    /\ pc # "running"
    /\ Settled
    /\ LET to_resolve == {r.url : r \in {x \in resolved_url : IsNull(x.resolved_url)}}
       IN \E heads \in [to_resolve -> responses \X responses] :
            \* "replace into resolved_url": url is the primary key
            LET resolved == {resolve_url(url, heads[url], TRUE) : url \in to_resolve}
                ru == {r \in resolved_url : r.url \notin to_resolve} \cup resolved
            IN /\ resolved_url' = ru
               /\ \E T \in Rebuilds(message_url, ru) : resolved_message_url' = Some(T)
    /\ pc' = "resolved"
    /\ Forgotten
    /\ out' = Null
    /\ resolver' = Null
    /\ UNCHANGED <<edge, message_url, net, study, firstSeen, rolledBack>>

(***************************************************************************)
(* Ingestion of messages with urls, resolution, and the co-link networks   *)
(* of the original and of the resolved urls.                               *)
(***************************************************************************)
LinkTuples ==
    [message_id : 1..KindsMaxMsgId, user_id : Users, username : {"n"},
     repost_id : {""}, reply_id : {""}, message : {<<"a">>},
     timestamp : {"0"}, urls : {Some(<<"s1">>), Some(<<"s2">>)}]

IngestLinks == \E t \in LinkTuples : preprocess_data(<<t>>)

compute_co_link_network ==
    \E resolved \in BOOLEAN, n_threads \in KindsThreads :
        compute([NoRun EXCEPT !.kind = "co_link", !.n_threads = n_threads,
                              !.resolved = resolved])

\* The resolve_urls command on a network where any request may fail
resolve_urls == resolve_all_urls(Heads)

NextResolve ==
    \/ IngestLinks
    \/ resolve_urls

SpecResolve == InitStudying("co_link") /\ [][NextResolve]_vars

\* The resolve_urls command on a network where every request succeeds
Reachable == {h \in Heads : h.status = "200"}

resolve_reachable_urls == resolve_all_urls(Reachable)

NextLinks ==
    \/ IngestLinks
    \/ resolve_reachable_urls
    \/ compute_co_link_network
    \/ Worker
    \/ Wait
    \/ Return

SpecLinks == InitStudying("co_link") /\ [][NextLinks]_vars

\* C16: a url whose resolution ended in an error status is stored in
\* resolved_url with resolved_url equal to the url itself.
C16_ErrorKeepsUrl ==
    \A r \in resolved_url :
        (~IsNull(r.resolved_status) /\ Get(r.resolved_status) \in ErrorStatuses)
            => r.resolved_url = Some(r.url)

\* C17: when resolve_all_urls returns, resolved_message_url holds exactly one
\* row for each (message_id, resolved_url) pair of the join of message_url
\* with resolved_url on url, the row carries the timestamp and user_id of a
\* message_url row of that pair, and no row has a null resolved_url.
C17_ResolvedMessageUrl ==
    pc = "resolved" =>
        LET T == Get(resolved_message_url)
            pairs == {<<m, r>> \in message_url \X resolved_url : m.url = r.url}
        IN /\ \A x \in pairs :
                Cardinality({t \in T : /\ t.message_id = x[1].message_id
                                       /\ t.resolved_url = x[2].resolved_url}) = 1
           /\ \A t \in T : \E x \in pairs :
                /\ t.message_id = x[1].message_id
                /\ t.resolved_url = x[2].resolved_url
                /\ t.timestamp = x[1].timestamp
                /\ t.user_id = x[1].user_id
           /\ \A t \in T : ~IsNull(t.resolved_url)

\* Two urls of one message resolved to the same url, attached by tuples that
\* named different users, and another message resolved elsewhere
C17_Witness ==
    /\ pc = "resolved"
    /\ \E m1, m2 \in message_url :
          /\ m1.message_id = m2.message_id
          /\ m1.url # m2.url
          /\ m1.user_id # m2.user_id
          /\ \E r1, r2 \in resolved_url :
                r1.url = m1.url /\ r2.url = m2.url /\ r1.resolved_url = r2.resolved_url
    /\ Cardinality(Get(resolved_message_url)) = 2
    /\ Cardinality(message_url) = 3

\* C18: compute_co_link_network with resolved=True on a store on which
\* resolve_all_urls never ran completes, with an empty co_link network.
C18_UnresolvedLinks ==
    (params.kind = "co_link" /\ params.resolved /\ IsNull(resolved_message_url))
        => pc # "compute_failed"

\* C20: every url of message_url has exactly one row in resolved_url, and
\* ingesting a message leaves every resolved row of resolved_url as it is.
C20_UrlQueuedOnce ==
    /\ \A m \in message_url :
          Cardinality({r \in resolved_url : r.url = m.url}) = 1
    /\ \A t \in LinkTuples :
          \A r \in resolved_url :
              ~IsNull(r.resolved_url) => r \in Ingested(Db, <<t>>).resolved_url

\* A message was ingested with a url that had been resolved before, to
\* another url than itself
C20_Witness ==
    /\ pc = "ingested"
    /\ ~IsNull(resolved_message_url)
    /\ \E m \in message_url :
          /\ \A t \in Get(resolved_message_url) : t.message_id # m.message_id
          /\ \E r \in resolved_url :
                /\ r.url = m.url
                /\ ~IsNull(r.resolved_url)
                /\ r.resolved_url # Some(r.url)

(***************************************************************************)
(* The batching of parallise_query_by_user_id on its own: candidate lists  *)
(* of up to MaxCandidates user ids split for 1, 2 or 4 processes.          *)
(***************************************************************************)
MaxCandidates == 30

InitBatches ==
    /\ InitStore("co_retweet")
    /\ \E n \in 0..MaxCandidates, n_processes \in Threads :
          out = Some([call |-> "batches", user_ids |-> [i \in 1..n |-> i],
                      n_processes |-> n_processes, returned |-> FALSE,
                      value |-> <<>>])

\* compute_networks.py:120-126 on the candidate list
call_batches ==
    /\ ~IsNull(out)
    /\ Get(out).call = "batches"
    /\ ~Get(out).returned
    /\ out' = Some([Get(out) EXCEPT
                       !.returned = TRUE,
                       !.value = Batches(Get(out).user_ids, Get(out).n_processes)])
    /\ UNCHANGED <<store, engine, pc, study, firstSeen, rolledBack, resolved_message_url,
                   resolver>>

NextBatches == call_batches

SpecBatches == InitBatches /\ [][NextBatches]_vars

Ceiling(a, b) == (a + b - 1) \div b

RECURSIVE Concat(_)
Concat(seqs) == IF seqs = <<>> THEN <<>> ELSE Head(seqs) \o Concat(Tail(seqs))

\* C23: the candidates are split into contiguous slices of size
\* max(ceil(|users| / (n_workers * 10)), 1), so that there are never more than
\* n_workers * 10 batches.
C23_BatchCount ==
    LET o == Get(out)
        target_batches == o.n_processes * 10
        size == Max(Ceiling(Len(o.user_ids), target_batches), 1)
    IN (o.call = "batches" /\ o.returned) =>
          /\ Concat(o.value) = o.user_ids
          /\ \A k \in DOMAIN o.value :
                IF k < Len(o.value) THEN Len(o.value[k]) = size
                ELSE Len(o.value[k]) \in 1..size
          /\ Len(o.value) <= target_batches

(***************************************************************************)
(* resolve_url on its own: the requests one call makes.                    *)
(***************************************************************************)
\* Whether a request of resolve_url verifies certificates: the call
\* session.head(url, allow_redirects=True, timeout=timeout) of urls.py:65
\* passes no verify argument, so the session's default, to verify, applies
\* whatever verify_ssl is
RequestVerifies(verify_ssl) == TRUE

\* The requests a call of resolve_url makes, the recursive call's included
RECURSIVE Requests(_, _)
Requests(heads, verify_ssl) ==
    LET h == IF verify_ssl THEN heads[1] ELSE heads[2] IN
    <<[verify |-> RequestVerifies(verify_ssl), status |-> h.status]>>
        \o (IF h.status = "SSLError" /\ verify_ssl
            THEN Requests(heads, FALSE)
            ELSE <<>>)

InitResolveUrl ==
    /\ InitStore("co_link")
    /\ \E url \in {"s1", "s2"}, heads \in Heads \X Heads :
          out = Some([call |-> "resolve_url", url |-> url, heads |-> heads,
                      returned |-> FALSE, requests |-> <<>>,
                      row |-> [url |-> url, resolved_url |-> Null,
                               ssl_verified |-> Null, resolved_status |-> Null]])

\* resolve_url(url), urls.py:17-96
call_resolve_url ==
    /\ ~IsNull(out)
    /\ Get(out).call = "resolve_url"
    /\ ~Get(out).returned
    /\ out' = Some([Get(out) EXCEPT
                       !.returned = TRUE,
                       !.requests = Requests(Get(out).heads, TRUE),
                       !.row = resolve_url(Get(out).url, Get(out).heads, TRUE)])
    /\ UNCHANGED <<store, engine, pc, study, firstSeen, rolledBack, resolved_message_url,
                   resolver>>

NextResolveUrl == call_resolve_url

SpecResolveUrl == InitResolveUrl /\ [][NextResolveUrl]_vars

\* C26: resolve_url makes at most two requests; after an SSL error of the
\* first it makes exactly one more, with certificate verification disabled,
\* and returns ssl_verified false; otherwise it makes one request and returns
\* ssl_verified true.
C26_SslRetry ==
    LET o == Get(out) IN
    (o.call = "resolve_url" /\ o.returned) =>
        /\ Len(o.requests) \in 1..2
        /\ o.requests[1].verify
        /\ IF o.heads[1].status = "SSLError"
           THEN /\ Len(o.requests) = 2
                /\ ~o.requests[2].verify
                /\ o.row.ssl_verified = Some(FALSE)
           ELSE /\ Len(o.requests) = 1
                /\ o.row.ssl_verified = Some(TRUE)

(***************************************************************************)
(* resolve_all_urls step by step: the futures of its thread pool, the      *)
(* drain inside the submitting loop and the final wait.                    *)
(***************************************************************************)
\* The size of the in-flight set at which the loop drains: 1000 at
\* urls.py:148, scaled down to a universe of three urls
MaxInFlight == 2

DrainTuples ==
    [message_id : {1}, user_id : {1}, username : {"n"},
     repost_id : {""}, reply_id : {""}, message : {<<"a">>},
     timestamp : {"0"}, urls : {Some(<<"s1">>), Some(<<"s2">>), Some(<<"s3">>)}]

IngestDrain == \E t \in DrainTuples : preprocess_data(<<t>>)

\* How a request of the pool may end
DrainHeads == {h \in Heads : h.status \in {"200", "Timeout"}}

\* "replace into resolved_url values(?, ?, ?, ?)" for each row: url is the
\* primary key
ReplaceResolved(ru, rows) ==
    {r \in ru : r.url \notin {x.url : x \in rows}} \cup rows

\* wait(future_list, timeout=0) and wait(future_list): the done futures
Completed(r, futures) == {u \in futures : r.state[u] = "completed"}

NotCompletedAll(futures, completed) == futures

\* "future_list = not_completed", urls.py:149-150
NotCompleted(futures, completed) == futures \ completed

\* The lists a select without "order by" may yield for a set of rows
Orderings(S) == {q \in [1..Cardinality(S) -> S] : Range(q) = S}

\* urls.py:111-132: the worklist is read, in the order the select yields
start_resolving ==
    /\ pc # "running"
    /\ Settled
    /\ LET urls == {r.url : r \in {x \in resolved_url : IsNull(x.resolved_url)}}
       IN \E to_resolve \in Orderings(urls) :
            resolver' = Some([to_resolve |-> to_resolve,
                              next |-> 1,
                              at |-> "submit",
                              state |-> [u \in urls |-> "unsubmitted"],
                              result |-> [u \in urls |->
                                             CHOOSE x \in resolved_url : x.url = u],
                              future_list |-> {},
                              writes |-> [u \in urls |-> <<>>],
                              after_run |-> (pc = "resolved")])
    /\ pc' = "resolving"
    /\ Forgotten
    /\ out' = Null
    /\ UNCHANGED <<store, net, study, firstSeen, rolledBack, resolved_message_url>>

\* urls.py:134-137: the next url of the worklist is handed to the pool
submit_url ==
    /\ pc = "resolving"
    /\ LET r == Get(resolver) IN
          /\ r.at = "submit"
          /\ r.next <= Len(r.to_resolve)
          /\ LET url == r.to_resolve[r.next] IN
                resolver' = Some([r EXCEPT !.state[url] = "running",
                                           !.future_list = @ \cup {url},
                                           !.at = "check"])
    /\ UNCHANGED <<store, engine, pc, study, firstSeen, rolledBack,
                   resolved_message_url, out>>

\* A thread of the pool ends its resolve_url call
complete_request ==
    /\ pc = "resolving"
    /\ LET r == Get(resolver) IN
          \E u \in DOMAIN r.state, h \in DrainHeads :
              /\ r.state[u] = "running"
              /\ resolver' = Some([r EXCEPT
                                      !.state[u] = "completed",
                                      !.result[u] = resolve_url(u, <<h, h>>, TRUE)])
    /\ UNCHANGED <<store, engine, pc, study, firstSeen, rolledBack,
                   resolved_message_url, out>>

\* urls.py:148-158: when the in-flight set is large the done futures are
\* written and dropped from the set, and the loop moves on
check_inflight ==
    /\ pc = "resolving"
    /\ LET r == Get(resolver) IN
          /\ r.at = "check"
          /\ IF Cardinality(r.future_list) >= MaxInFlight
             THEN LET completed == Completed(r, r.future_list) IN
                  /\ resolved_url' =
                        ReplaceResolved(resolved_url, {r.result[u] : u \in completed})
                  /\ resolver' = Some([r EXCEPT
                        !.future_list = NotCompleted(r.future_list, completed),
                        !.writes = [u \in DOMAIN r.writes |->
                                       IF u \in completed
                                       THEN Append(r.writes[u], "drain")
                                       ELSE r.writes[u]],
                        !.next = @ + 1,
                        !.at = "submit"])
             ELSE /\ resolved_url' = resolved_url
                  /\ resolver' = Some([r EXCEPT !.next = @ + 1, !.at = "submit"])
    /\ UNCHANGED <<edge, message_url, engine, pc, study, firstSeen, rolledBack,
                   resolved_message_url, out>>

\* urls.py:160-167: the loop is over; wait(future_list) blocks until every
\* future of the set is done, and their rows are written
final_wait ==
    /\ pc = "resolving"
    /\ LET r == Get(resolver) IN
          /\ r.at = "submit"
          /\ r.next > Len(r.to_resolve)
          /\ Completed(r, r.future_list) = r.future_list
          /\ resolved_url' =
                ReplaceResolved(resolved_url, {r.result[u] : u \in r.future_list})
          /\ resolver' = Some([r EXCEPT
                !.writes = [u \in DOMAIN r.writes |->
                               IF u \in r.future_list
                               THEN Append(r.writes[u], "final")
                               ELSE r.writes[u]]])
    /\ pc' = "rebuilding"
    /\ UNCHANGED <<edge, message_url, engine, study, firstSeen, rolledBack,
                   resolved_message_url, out>>

\* urls.py:169-193: resolved_message_url is dropped and built again
rebuild ==
    /\ pc = "rebuilding"
    /\ \E T \in Rebuilds(message_url, resolved_url) : resolved_message_url' = Some(T)
    /\ pc' = "resolved"
    /\ UNCHANGED <<store, engine, study, firstSeen, rolledBack, out, resolver>>

NextDrain ==
    \/ IngestDrain
    \/ start_resolving
    \/ submit_url
    \/ complete_request
    \/ check_inflight
    \/ final_wait
    \/ rebuild

SpecDrain == InitStudying("co_link") /\ [][NextDrain]_vars

\* C27: every url of the worklist has its result written to resolved_url
\* exactly once before the rebuild of resolved_message_url starts, by a drain
\* or by the final wait; when resolve_all_urls has returned no url has a null
\* resolved_url, and a run started right then has an empty worklist.
C27_WrittenOnce ==
    ~IsNull(resolver) =>
        LET r == Get(resolver)
            worklist == Range(r.to_resolve)
        IN /\ \A u \in worklist : Len(r.writes[u]) <= 1
           /\ pc \in {"rebuilding", "resolved"} =>
                 \A u \in worklist :
                     /\ Len(r.writes[u]) = 1
                     /\ r.state[u] = "completed"
                     /\ r.result[u] \in resolved_url
                     /\ ~IsNull(r.result[u].resolved_url)
           /\ pc = "resolved" => \A x \in resolved_url : ~IsNull(x.resolved_url)
           /\ r.after_run => r.to_resolve = <<>>

\* A run that wrote one url in a drain and another after the final wait
C27_Witness ==
    /\ pc = "resolved"
    /\ ~IsNull(resolver)
    /\ \E u, v \in Range(Get(resolver).to_resolve) :
          /\ Get(resolver).writes[u] = <<"drain">>
          /\ Get(resolver).writes[v] = <<"final">>

(***************************************************************************)
(* Export of a co-retweet network computed with a minimum edge weight.     *)
(***************************************************************************)
MirrorTuples ==
    [message_id : MsgIds, user_id : Users, username : {"n"},
     repost_id : {"r1"}, reply_id : {""}, message : {<<"a">>},
     timestamp : {"0"}, urls : {Some(<<>>)}]

IngestMirror == \E t \in MirrorTuples : preprocess_data(<<t>>)

\* __main__.py:320-336: the flags --include_symmetric_edges and
\* --include_self_loops are handed to get_edge_rows
export_retweet_network ==
    \E symmetric \in BOOLEAN, loops \in BOOLEAN :
        get_edge_rows("co_retweet", symmetric, loops)

NextMirror ==
    \/ IngestMirror
    \/ compute_for_output
    \/ Worker
    \/ Wait
    \/ Return
    \/ export_retweet_network

SpecMirror == Init /\ [][NextMirror]_vars

\* The rows of a set that join the users a and b, in either direction
Joining(rows, a, b) == {r \in rows : {r[1], r[2]} = {a, b}}

\* C28: an export with symmetric and loops false returns exactly one row for
\* every two distinct users the table joins by a row in one direction or the
\* other.
C28_NoPairLost ==
    (/\ pc = "exported"
     /\ Get(out).call = "get_edge_rows"
     /\ ~Get(out).raised
     /\ ~Get(out).symmetric
     /\ ~Get(out).loops) =>
        \A a, b \in Users :
            (a # b /\ Joining(net[Get(out).command], a, b) # {})
                => Cardinality(Joining(Get(out).rows, a, b)) = 1

(***************************************************************************)
(* preprocess_csv_files: rows of a CSV file whose last column is the       *)
(* space delimited list of urls, and the co-link network of what they      *)
(* leave in the store.                                                     *)
(***************************************************************************)
\* row[-1].split(" "), preprocess.py:43: the pieces between single spaces,
\* the empty ones included, so that the empty text gives one empty piece
RECURSIVE SplitOnSpaceFrom(_, _, _)
SplitOnSpaceFrom(text, i, piece) ==
    IF i > Len(text)
    THEN <<piece>>
    ELSE IF text[i] = " "
         THEN <<piece>> \o SplitOnSpaceFrom(text, i + 1, "")
         ELSE SplitOnSpaceFrom(text, i + 1, piece \o text[i])

\* One element of the generator `data`, preprocess.py:43
CsvData(row) == [row EXCEPT !.urls = Some(SplitOnSpaceFrom(row.urls, 1, ""))]

\* The rows after the header of a CSV file; the urls column is a text
CsvRows ==
    [message_id : 1..KindsMaxMsgId, user_id : Users, username : {"n"},
     repost_id : {""}, reply_id : {""}, message : {<<"a">>},
     timestamp : {"0"}, urls : {<<>>, <<"u">>, <<"u", " ", "v">>}]

\* preprocess_csv_files(db_path, [file]), preprocess.py:34-46, for a file of
\* one row
preprocess_csv_files == \E row \in CsvRows : preprocess_data(<<CsvData(row)>>)

compute_co_link_of_csv ==
    \E n_threads \in KindsThreads :
        compute([NoRun EXCEPT !.kind = "co_link", !.n_threads = n_threads])

NextCsv ==
    \/ preprocess_csv_files
    \/ compute_co_link_of_csv
    \/ Worker
    \/ Wait
    \/ Return

SpecCsv == InitStudying("co_link") /\ [][NextCsv]_vars

\* C29: a CSV row with an empty urls column adds no row to message_url and
\* none to resolved_url, so that no table holds the empty url and every
\* co_link edge comes from a url two messages name.
C29_EmptyUrlsField ==
    /\ \A m \in message_url : m.url # ""
    /\ \A r \in resolved_url : r.url # ""
    /\ (pc = "returned" /\ params.kind = "co_link") =>
          \A row \in net["co_link"] :
              \E m1, m2 \in message_url :
                  /\ m1.user_id = row[1]
                  /\ m2.user_id = row[2]
                  /\ m1.message_id # m2.message_id
                  /\ m1.url = m2.url
                  /\ m1.url # ""

(***************************************************************************)
(* preprocess_twitter_json_files: a file of JSON lines read first as pages *)
(* of the v2 API and, when that raises, as tweets of the v1.1 API.         *)
(***************************************************************************)
\* A line of a file: a tweet of the v1.1 API, or a page of the v2 API that
\* holds one tweet.  The tweets carry no urls.
TwitterLines == [format : {"v1", "v2"}, id : MsgIds, user : Users]

\* "(int(tweet["id"]) >> 22) / 1000": the seconds since the Twitter epoch; it
\* is 0 for the ids of this universe, all below 2^22
TwitterEpoch(id) == (id \div 4194304) \div 1000

\* The row both parsers build for a tweet that is neither a retweet nor a
\* reply, preprocess.py:163-177 and 241-255
TweetRow(line) ==
    [message_id |-> line.id,
     user_id |-> line.user,
     username |-> "n",
     repost_id |-> Null,
     reply_id |-> Null,
     message |-> <<"a">>,
     transformed_message |-> Null,
     transformed_message_length |-> Null,
     transformed_message_hash |-> Null,
     token_set |-> Null,
     timestamp |-> TwitterEpoch(line.id)]

\* The loop of a parser over the lines the file iterator still holds,
\* preprocess.py:145-207 and 226-280.  `pos` is the next line the iterator
\* will yield.  A line of the other format makes the parser raise after the
\* line was taken from the iterator: ensure_flattened does not understand a
\* v1.1 tweet, and a v2 page has no "text" and no "id_str".
RECURSIVE ParseFrom(_, _, _, _)
ParseFrom(format, db, lines, pos) ==
    IF pos > Len(lines)
    THEN [db |-> db, raised |-> FALSE, pos |-> pos]
    ELSE IF lines[pos].format # format
         THEN [db |-> db, raised |-> TRUE, pos |-> pos + 1]
         ELSE ParseFrom(format,
                        [db EXCEPT !.edge = InsertOrIgnoreEdge(@, TweetRow(lines[pos]))],
                        lines, pos + 1)

\* "except: db.execute("rollback"); raise", preprocess.py:206-209
Parsed(format, db, lines, pos) ==
    LET r == ParseFrom(format, db, lines, pos)
    IN IF r.raised THEN [r EXCEPT !.db = db] ELSE r

\* preprocess_twitter_v2_json_data(db_path, tweets), preprocess.py:214-284
preprocess_twitter_v2_json_data(db, lines, pos) == Parsed("v2", db, lines, pos)

\* preprocess_twitter_json_data(db_path, tweets), preprocess.py:133-211
preprocess_twitter_json_data(db, lines, pos) == Parsed("v1", db, lines, pos)

\* preprocess_twitter_json_files(db_path, [file]), preprocess.py:118-130: the
\* fallback is handed the file object that the v2 attempt read from
preprocess_twitter_json_files ==
    \E file \in SetToSeqs(TwitterLines) :
        LET v2 == preprocess_twitter_v2_json_data(Db, file, 1)
            v1 == preprocess_twitter_json_data(Db, file, v2.pos)
            final == IF v2.raised THEN v1 ELSE v2
        IN /\ pc # "running"
           /\ Settled
           /\ Forgotten
           /\ edge' = final.db.edge
           /\ message_url' = final.db.message_url
           /\ resolved_url' = final.db.resolved_url
           /\ pc' = IF final.raised THEN "ingest_failed" ELSE "ingested"
           /\ out' = Some([call |-> "preprocess_twitter_json_files",
                           file |-> file,
                           before |-> edge,
                           fell_back |-> v2.raised,
                           raised |-> final.raised])
           /\ resolver' = Null
           /\ UNCHANGED <<net, study, firstSeen, rolledBack, resolved_message_url>>

NextTwitter == preprocess_twitter_json_files

SpecTwitter == InitStudying("co_retweet") /\ [][NextTwitter]_vars

\* C30: when the v2 attempt raised and the v1.1 fallback ran to its end,
\* every v1.1 tweet line of the file has its message in edge, and every row
\* the call added comes from a v1.1 line.
C30_FallbackReadsWholeFile ==
    LET o == Get(out) IN
    (/\ ~IsNull(out)
     /\ o.call = "preprocess_twitter_json_files"
     /\ o.fell_back
     /\ ~o.raised) =>
        /\ \A i \in DOMAIN o.file :
              o.file[i].format = "v1" =>
                  \E x \in edge : x.message_id = o.file[i].id
        /\ \A x \in edge \ o.before :
              \E i \in DOMAIN o.file :
                  o.file[i].format = "v1" /\ x = TweetRow(o.file[i])

====
